---- MODULE Spec2Model ----
(***************************************************************************)
(* Webhook event-to-database reconciliation of webcompat-metrics-server    *)
(* (ochazuke): signature verification, event classification, payload       *)
(* extraction, database reconciliation and the webhook dispatcher.         *)
(***************************************************************************)
EXTENDS Integers, Sequences, FiniteSets, TLC

VARIABLES
    HOOK_SECRET_KEY,  \* ochazuke.app.config['HOOK_SECRET_KEY']
    db,               \* the rows of the issue, label, milestone, event tables
    delivery,         \* the request in flight (headers and raw body)
    response,         \* the response to it, once the handler has run
    dbcalls,          \* the persistence calls the handler made for it
    pc,               \* idle, received (handler to run) or responded
    delivered,        \* number of deliveries handled so far
    arg,              \* inputs of the helper function under application
    ret               \* its outcome (value or exception)

appvars == <<db, delivery, response, dbcalls, pc, delivered>>

vars == <<HOOK_SECRET_KEY, db, delivery, response, dbcalls, pc, delivered,
          arg, ret>>

(***************************************************************************)
(* Bounds of the model.                                                    *)
(***************************************************************************)
\* longest arbitrary text tried after the prefix of a presented signature
MaxTail == 2
\* number of deliveries in one behaviour
MaxDeliveries == 2
MaxOps == 2

(***************************************************************************)
(* Python values: None, and the outcome of a call (return or raise).       *)
(***************************************************************************)
None == [none |-> TRUE]
Some(v) == [some |-> v]
IsNone(o) == "none" \in DOMAIN o

Return(v) == [exc |-> "none", val |-> v]
Raise(e) == [exc |-> e]
Raised(r) == r.exc # "none"

(***************************************************************************)
(* Text is a sequence of one-character strings.                            *)
(***************************************************************************)
SHA1_PREFIX == <<"s", "h", "a", "1", "=">>

HexDigits == <<"0", "1", "2", "3", "4", "5", "6", "7",
               "8", "9", "a", "b", "c", "d", "e", "f">>

\* characters outside 7-bit ASCII (a header is decoded as latin-1);
\* "xE9" stands for the single character with code 0xE9
NonAscii == {"xE9"}

startswith(s, p) == Len(s) >= Len(p) /\ SubSeq(s, 1, Len(p)) = p

\* str.split(sep): the pieces of s between the occurrences of sep
RECURSIVE split(_, _)
split(s, sep) ==
    IF \A i \in 1..Len(s) : s[i] # sep
    THEN <<s>>
    ELSE LET i == CHOOSE j \in 1..Len(s) :
                      s[j] = sep /\ \A k \in 1..(j - 1) : s[k] # sep
         IN  <<SubSeq(s, 1, i - 1)>> \o split(SubSeq(s, i + 1, Len(s)), sep)

(***************************************************************************)
(* HMAC-SHA1 hex digest, as an injective function of (key, message): the   *)
(* first digit identifies the key, the others the message bytes.           *)
(***************************************************************************)
Keys == {"key", "s3cret", "hunter2"}

KeyDigit(key) ==
    CASE key = "key" -> "a"
      [] key = "s3cret" -> "b"
      [] key = "hunter2" -> "c"

BodyHexWidth == 3

RECURSIVE Hex(_, _)
Hex(n, width) ==
    IF width = 0 THEN <<>>
    ELSE Hex(n \div 16, width - 1) \o <<HexDigits[(n % 16) + 1]>>

hmac_sha1_hexdigest(key, msg) == <<KeyDigit(key)>> \o Hex(msg, BodyHexWidth)

\* hmac.compare_digest on two str: TypeError unless both are ASCII
compare_digest(a, b) ==
    IF \E i \in 1..Len(a) : a[i] \in NonAscii THEN Raise("TypeError")
    ELSE IF \E i \in 1..Len(b) : b[i] \in NonAscii THEN Raise("TypeError")
    ELSE Return(a = b)

(***************************************************************************)
(* Signature Verifier (ochazuke/webhook/helpers.py).                       *)
(***************************************************************************)
\* the key the code hands to hmac.new
HMAC_KEY_LITERAL == "key"

get_payload_signature_keyed(key, payload) == hmac_sha1_hexdigest(key, payload)

get_payload_signature(key, payload) ==
    hmac_sha1_hexdigest(HMAC_KEY_LITERAL, payload)

signature_check(key, post_signature, payload) ==
    IF startswith(post_signature, SHA1_PREFIX)
    THEN LET parts == split(post_signature, "=")
         IN  IF Len(parts) # 2
             THEN Raise("ValueError")  \* sha_name, signature = [...]
             ELSE IF parts[2] = <<>>
             THEN Return(FALSE)
             ELSE compare_digest(get_payload_signature(key, payload),
                                 parts[2])
    ELSE Return(FALSE)

\* request.headers.get(name) is None or the header's value
is_github_hook(request, config_key) ==
    IF IsNone(request.headers.X_GitHub_Event)
    THEN Return(FALSE)
    ELSE LET post_signature == request.headers.X_Hub_Signature
         IN  IF ~IsNone(post_signature) /\ post_signature.some # <<>>
             THEN signature_check(config_key, post_signature.some,
                                  request.data)
             ELSE Return(FALSE)

\* the signature GitHub sends for a body under a shared secret
GitHubSignature(secret, body) ==
    SHA1_PREFIX \o hmac_sha1_hexdigest(secret, body)

\* X-GitHub-Event values: the handled ones and one GitHub also sends
EventTypes == {"issues", "label", "milestone", "ping", "watch"}

(***************************************************************************)
(* Event Classifier (ochazuke/webhook/helpers.py).  A change-set is None   *)
(* or a dict, given as the set of its entries [key, from]: GitHub sends    *)
(* changes[key] = {"from": <previous value>}.                              *)
(***************************************************************************)
\* truth value of a dict-or-None
Truthy(d) == ~IsNone(d) /\ d.some # {}

\* d.get(key) of a dict: the entry, or None
dict_get(d, key) ==
    IF \E e \in d.some : e.key = key
    THEN Some(CHOOSE e \in d.some : e.key = key)
    ELSE None

\* the issues actions the classifier names
AlwaysDesirable == {"opened", "closed", "reopened", "labeled", "unlabeled",
                    "milestoned", "unmilestoned"}

KnownIssueActions == AlwaysDesirable \cup {"edited", "assigned", "unassigned"}

\* key in d, for a dict-or-None d
HasKey(d, key) == ~IsNone(d) /\ \E e \in d.some : e.key = key

\* the variants of is_desirable_issue_event a slip would produce
is_desirable_issue_event_no_unmilestoned(action, changes) ==
    IF action \in {"opened", "closed", "reopened", "labeled", "unlabeled",
                   "milestoned"}
    THEN Return(TRUE)
    ELSE IF action = "edited" /\ Truthy(changes)
    THEN Return(~IsNone(dict_get(changes, "title")))
    ELSE Return(FALSE)

is_desirable_issue_event_unguarded(action, changes) ==
    IF action \in {"opened", "closed", "reopened", "labeled", "unlabeled",
                   "milestoned", "unmilestoned"}
    THEN Return(TRUE)
    ELSE IF action = "edited"
    THEN IF IsNone(changes) THEN Raise("AttributeError")
         ELSE Return(~IsNone(dict_get(changes, "title")))
    ELSE Return(FALSE)

is_desirable_issue_event_funky(action, changes) ==
    IF action \in {"opened", "closed", "reopened", "labeled", "unlabeled",
                   "milestoned", "unmilestoned"}
    THEN Return(TRUE)
    ELSE IF action = "edited" /\ Truthy(changes)
    THEN Return(~IsNone(dict_get(changes, "title")))
    ELSE IF action \notin {"assigned", "unassigned", "edited"}
    THEN Return(TRUE)
    ELSE Return(FALSE)

is_desirable_issue_event(action, changes) ==
    IF action \in {"opened", "closed", "reopened", "labeled", "unlabeled",
                   "milestoned", "unmilestoned"}
    THEN Return(TRUE)
    ELSE IF action = "edited" /\ Truthy(changes)
    THEN IF ~IsNone(dict_get(changes, "title"))
         THEN Return(TRUE)
         ELSE Return(FALSE)
    ELSE IF action \notin {"assigned", "unassigned", "edited"}
    THEN Return(FALSE)  \* after logger.info of the funky action
    ELSE Return(FALSE)

(***************************************************************************)
(* The relational store (ochazuke/models.py).  A row of a table is a       *)
(* record; the issue_labels association rows of an issue are the set       *)
(* `labels` of label ids kept with the issue; `serial` holds the last id   *)
(* handed out by each auto-incrementing primary key.                       *)
(***************************************************************************)
NoId == 0       \* a null integer column
NoText == "None"  \* a null text value (Python None where text is expected)

ADD == "Add"
REMOVE == "Remove"
UPDATE == "Update"

Milestone(title) == [table |-> "milestone", id |-> NoId, title |-> title]

Label(name) == [table |-> "label", id |-> NoId, name |-> name]

Issue(id, header, created_at, milestone_id) ==
    [table |-> "issue", id |-> id, header |-> header,
     created_at |-> created_at, milestone_id |-> milestone_id,
     is_open |-> TRUE, labels |-> {}]

Event(issue_id, actor, action, details, received_at) ==
    [table |-> "event", id |-> NoId, issue_id |-> issue_id, actor |-> actor,
     action |-> action, details |-> details, received_at |-> received_at]

EmptyStore ==
    [issue |-> {}, label |-> {}, milestone |-> {}, event |-> {},
     serial |-> [label |-> 0, milestone |-> 0, event |-> 0]]

\* the outcome of a Reconciler step: the store it leaves, the exception it
\* raises ("none" if it returns), and the persistence calls it made
Step(d, exc, calls) == [db |-> d, exc |-> exc, calls |-> calls]

\* Issue.query.filter_by(id=id).one() inside try/except: the first except
\* clause names sqlalchemy.orm.exc.NoResultsFound, which does not exist, so
\* any exception of one() ends in AttributeError
get_issue_by_id(d, id) ==
    LET found == {i \in d.issue : i.id = id}
    IN  IF Cardinality(found) = 1
        THEN Return(Some(CHOOSE i \in found : TRUE))
        ELSE Raise("AttributeError")

\* Label.query.filter_by(name=name).one(): None when no row or several match
get_label_by_name(d, name) ==
    LET found == {l \in d.label : l.name = name}
    IN  IF Cardinality(found) = 1
        THEN Return(Some(CHOOSE l \in found : TRUE))
        ELSE Return(None)

\* Milestone.query.filter_by(title=title).one(); `title` is [str |-> text],
\* or a dict, which the database driver cannot bind to a TEXT parameter
get_milestone_by_title(d, title) ==
    IF "str" \notin DOMAIN title
    THEN Raise("DBAPIError")
    ELSE LET found == {m \in d.milestone : m.title = title.str}
         IN  IF Cardinality(found) = 1
             THEN Return(Some(CHOOSE m \in found : TRUE))
             ELSE Return(None)

\* a variant for a database that does not enforce the foreign key of
\* event.issue_id
CommitAllowed_no_foreign_key(d, operation, item) ==
    CASE item.table = "issue" ->
            /\ item.header # NoText
            /\ \A l \in item.labels : \E r \in d.label : r.id = l
            /\ item.milestone_id # NoId
                   => \E m \in d.milestone : m.id = item.milestone_id
            /\ operation = ADD => \A i \in d.issue : i.id # item.id
      [] item.table = "event" ->
            item.actor # NoText /\ item.action # NoText
      [] item.table = "milestone" ->
            /\ item.title # NoText
            /\ \A m \in d.milestone : m.id # item.id => m.title # item.title
      [] item.table = "label" -> item.name # NoText

\* the constraints the database checks when the unit of work is flushed
CommitAllowed(d, operation, item) ==
    CASE item.table = "issue" ->
            /\ item.header # NoText
            /\ \A l \in item.labels : \E r \in d.label : r.id = l
            /\ item.milestone_id # NoId
                   => \E m \in d.milestone : m.id = item.milestone_id
            /\ operation = ADD => \A i \in d.issue : i.id # item.id
      [] item.table = "event" ->
            /\ \E i \in d.issue : i.id = item.issue_id
            /\ item.actor # NoText /\ item.action # NoText
      [] item.table = "milestone" ->
            /\ item.title # NoText
            /\ \A m \in d.milestone : m.id # item.id => m.title # item.title
      [] item.table = "label" -> item.name # NoText

\* the rows of a table once the staged change is committed
Committed(d, operation, item) ==
    LET t == item.table
        n == d.serial[t] + 1
    IN  CASE operation = ADD /\ t = "issue" ->
                [d EXCEPT !.issue = @ \cup {item}]
          [] operation = ADD /\ t # "issue" ->
                [d EXCEPT ![t] = @ \cup {[item EXCEPT !.id = n]},
                          !.serial[t] = n]
          [] operation = UPDATE ->
                [d EXCEPT ![t] = {r \in @ : r.id # item.id} \cup {item}]

\* a variant whose Remove deletes the row, whatever refers to it
make_change_to_database_deleting(d, operation, item, storage_ok) ==
    IF ~storage_ok
    THEN Step(d, "none",
              <<[op |-> operation, table |-> item.table, ok |-> FALSE]>>)
    ELSE IF operation = REMOVE
    THEN Step([d EXCEPT ![item.table] = {r \in @ : r.id # item.id}], "none",
              <<[op |-> operation, table |-> item.table, ok |-> TRUE]>>)
    ELSE IF CommitAllowed(d, operation, item)
    THEN Step(Committed(d, operation, item), "none",
              <<[op |-> operation, table |-> item.table, ok |-> TRUE]>>)
    ELSE Step(d, "none",
              <<[op |-> operation, table |-> item.table, ok |-> FALSE]>>)

\* make_change_to_database(operation, item); storage_ok is false when the
\* commit meets a storage failure of its own (SQLAlchemyError)
make_change_to_database(d, operation, item, storage_ok) ==
    IF operation = REMOVE
    THEN \* db.session.remove(item): scoped_session.remove takes no argument
         Step(d, "TypeError",
              <<[op |-> operation, table |-> item.table, ok |-> FALSE]>>)
    ELSE IF storage_ok /\ CommitAllowed(d, operation, item)
    THEN Step(Committed(d, operation, item), "none",
              <<[op |-> operation, table |-> item.table, ok |-> TRUE]>>)
    ELSE \* db.session.rollback() and a logged warning
         Step(d, "none",
              <<[op |-> operation, table |-> item.table, ok |-> FALSE]>>)

(***************************************************************************)
(* Payload Extractor (ochazuke/webhook/helpers.py).  A parsed payload is   *)
(* a record of its keys; an absent key, like a JSON null, is None, and     *)
(* payload[key] of an absent key raises KeyError.                          *)
(***************************************************************************)
\* a variant that keeps the new title, not the old one, as the details of
\* a title edit
extract_issue_event_info_new_title(payload, action, changes) ==
    IF IsNone(payload.issue) \/ IsNone(payload.sender)
    THEN Raise("KeyError")
    ELSE Return([issue_id |-> payload.issue.some.number,
                 title |-> payload.issue.some.title,
                 created_at |-> payload.issue.some.created_at,
                 milestone |-> IF IsNone(payload.issue.some.milestone)
                               THEN NoText
                               ELSE payload.issue.some.milestone.some.title,
                 actor |-> payload.sender.some.login,
                 action |-> action,
                 details |->
                     IF Truthy(changes) /\ ~IsNone(dict_get(changes, "title"))
                     THEN Some([key |-> "old title",
                                value |-> payload.issue.some.title])
                     ELSE IF IsNone(payload.label) THEN None
                     ELSE Some([key |-> "label name",
                                value |-> payload.label.some.name]),
                 received_at |-> payload.issue.some.updated_at])

extract_issue_event_info(payload, action, changes) ==
    LET milestone == payload.issue.some.milestone
        milestone_title ==
            IF ~IsNone(milestone) THEN milestone.some.title ELSE NoText
        info(details) ==
            Return([issue_id |-> payload.issue.some.number,
                    title |-> payload.issue.some.title,
                    created_at |-> payload.issue.some.created_at,
                    milestone |-> milestone_title,
                    actor |-> payload.sender.some.login,
                    action |-> action,
                    details |-> details,
                    received_at |-> payload.issue.some.updated_at])
    IN  IF IsNone(payload.issue) \/ IsNone(payload.sender)
        THEN Raise("KeyError")
        ELSE IF action \in {"opened", "closed", "reopened", "edited"}
        THEN IF Truthy(changes) /\ ~IsNone(dict_get(changes, "title"))
             THEN info(Some([key |-> "old title",
                             value |-> dict_get(changes, "title").some.from]))
             ELSE info(None)
        ELSE IF action = "milestoned"  \* ('milestoned' or 'demilestoned')
        THEN IF IsNone(milestone)
             THEN Raise("TypeError")   \* None['title']
             ELSE info(Some([key |-> "milestone title",
                             value |-> milestone.some.title]))
        ELSE IF IsNone(payload.label)
             THEN Raise("KeyError")    \* payload['label']
             ELSE info(Some([key |-> "label name",
                             value |-> payload.label.some.name]))

(***************************************************************************)
(* Database Reconciler (ochazuke/webhook/helpers.py).  `oracle` tells, for *)
(* the state mutation and for the event append of one delivery, whether    *)
(* the storage layer lets the commit through.                              *)
(***************************************************************************)
\* a variant that never resolves the milestone
add_new_issue_no_milestone(d, info, storage_ok) ==
    make_change_to_database(
        d, ADD, Issue(info.issue_id, info.title, info.created_at, NoId),
        storage_ok)

add_new_issue(d, info, storage_ok) ==
    LET found == get_milestone_by_title(d, [str |-> info.milestone])
    IN  IF info.milestone # NoText /\ Raised(found)
        THEN Step(d, found.exc, <<>>)
        ELSE IF info.milestone # NoText /\ IsNone(found.val)
        THEN Step(d, "AttributeError", <<>>)   \* None.id
        ELSE LET milestone_id ==
                     IF info.milestone # NoText THEN found.val.some.id
                     ELSE NoId
                 bug == Issue(info.issue_id, info.title, info.created_at,
                              milestone_id)
             IN  make_change_to_database(d, ADD, bug, storage_ok)

add_new_event(d, info, storage_ok) ==
    LET event == Event(info.issue_id, info.actor, info.action, info.details,
                       info.received_at)
    IN  make_change_to_database(d, ADD, event, storage_ok)

issue_title_edit(d, info, storage_ok) ==
    LET got == get_issue_by_id(d, info.issue_id)
    IN  IF Raised(got) THEN Step(d, got.exc, <<>>)
        ELSE \* bug.title = info['title'] sets an attribute that is no
             \* column of Issue (the column is `header`): the row to commit
             \* is the one that was loaded
             LET bug == got.val.some
             IN  make_change_to_database(d, UPDATE, bug, storage_ok)

\* a variant that closes the issue whatever the action
issue_status_change_always_closed(d, info, action, storage_ok) ==
    LET got == get_issue_by_id(d, info.issue_id)
    IN  IF Raised(got) THEN Step(d, got.exc, <<>>)
        ELSE make_change_to_database(
                 d, UPDATE, [got.val.some EXCEPT !.is_open = FALSE],
                 storage_ok)

issue_status_change(d, info, action, storage_ok) ==
    LET got == get_issue_by_id(d, info.issue_id)
    IN  IF Raised(got) THEN Step(d, got.exc, <<>>)
        ELSE IF action \notin {"closed", "reopened"}
        THEN Step(d, "KeyError", <<>>)         \* status[action]
        ELSE LET bug == [got.val.some EXCEPT !.is_open = (action = "reopened")]
             IN  make_change_to_database(d, UPDATE, bug, storage_ok)

\* a variant that sets an attribute `milestone`, not the milestone_id
\* column, so that the stored row keeps its milestone_id
issue_milestone_change_keeps_id(d, info, storage_ok) ==
    LET got == get_issue_by_id(d, info.issue_id)
    IN  IF Raised(got) THEN Step(d, got.exc, <<>>)
        ELSE make_change_to_database(d, UPDATE, got.val.some, storage_ok)

issue_milestone_change(d, info, storage_ok) ==
    LET got == get_issue_by_id(d, info.issue_id)
        found == get_milestone_by_title(d, [str |-> info.milestone])
    IN  IF Raised(got) THEN Step(d, got.exc, <<>>)
        ELSE IF info.action = "milestoned"
        THEN IF Raised(found) THEN Step(d, found.exc, <<>>)
             ELSE IF IsNone(found.val)
             THEN Step(d, "AttributeError", <<>>)   \* None.id
             ELSE make_change_to_database(d, UPDATE,
                      [got.val.some EXCEPT !.milestone_id = found.val.some.id],
                      storage_ok)
        ELSE make_change_to_database(d, UPDATE,
                 [got.val.some EXCEPT !.milestone_id = NoId], storage_ok)

\* a variant whose unlabeled detaches every label of the issue
issue_label_change_clears(d, info, storage_ok) ==
    LET label == get_label_by_name(d, info.details.some.value).val
        got == get_issue_by_id(d, info.issue_id)
    IN  IF Raised(got) THEN Step(d, got.exc, <<>>)
        ELSE make_change_to_database(
                 d, UPDATE,
                 [got.val.some EXCEPT
                     !.labels = IF info.action = "labeled" /\ ~IsNone(label)
                                THEN @ \cup {label.some.id}
                                ELSE {}],
                 storage_ok)

issue_label_change(d, info, storage_ok) ==
    IF IsNone(info.details)
    THEN Step(d, "TypeError", <<>>)            \* None['label name']
    ELSE IF info.details.some.key # "label name"
    THEN Step(d, "KeyError", <<>>)
    ELSE LET label == get_label_by_name(d, info.details.some.value).val
             label_id == IF IsNone(label) THEN NoId ELSE label.some.id
             got == get_issue_by_id(d, info.issue_id)
         IN  IF Raised(got) THEN Step(d, got.exc, <<>>)
             ELSE IF info.action = "labeled"
             THEN \* a None in the collection fails the flush (FlushError)
                  make_change_to_database(d, UPDATE,
                      [got.val.some EXCEPT !.labels = @ \cup {label_id}],
                      storage_ok)
             ELSE IF label_id \notin got.val.some.labels
             THEN Step(d, "ValueError", <<>>)  \* list.remove(x): x not in list
             ELSE make_change_to_database(d, UPDATE,
                      [got.val.some EXCEPT !.labels = @ \ {label_id}],
                      storage_ok)

\* update_db(info, action) (ochazuke/webhooks/helpers.py): the routing of
\* the action to its state mutation, then the event append, which runs
\* only if the mutation returned
update_db(d, info, action, oracle) ==
    LET mutation ==
            IF action = "opened"
            THEN add_new_issue(d, info, oracle.mutation)
            ELSE IF action = "edited"
            THEN issue_title_edit(d, info, oracle.mutation)
            ELSE IF action = "closed"       \* ('closed' or 'reopened')
            THEN issue_status_change(d, info, action, oracle.mutation)
            ELSE IF action = "milestoned"   \* ('milestoned' or 'unmilestoned')
            THEN issue_milestone_change(d, info, oracle.mutation)
            ELSE IF action = "labeled"      \* ('labeled' or 'unlabeled')
            THEN issue_label_change(d, info, oracle.mutation)
            ELSE Step(d, "none", <<>>)
    IN  IF mutation.exc # "none" THEN mutation
        ELSE LET r == add_new_event(mutation.db, info, oracle.event)
             IN  Step(r.db, r.exc, mutation.calls \o r.calls)

\* a variant that resolves the label to rename by its new name
process_label_event_info_by_new_name(d, payload, storage_ok) ==
    LET label == get_label_by_name(d, payload.label.some.name).val
    IN  IF payload.action = "created"
        THEN make_change_to_database(d, ADD, Label(payload.label.some.name),
                                     storage_ok)
        ELSE IF IsNone(label) THEN Step(d, "AttributeError", <<>>)
        ELSE make_change_to_database(d, UPDATE, label.some, storage_ok)

process_label_event_info(d, payload, storage_ok) ==
    IF IsNone(payload.label)
    THEN Step(d, "KeyError", <<>>)
    ELSE LET action == payload.action
             label_name == payload.label.some.name
             changes == payload.changes
             prior_name ==
                 IF Truthy(changes) /\ ~IsNone(dict_get(changes, "name"))
                 THEN dict_get(changes, "name").some.from
                 ELSE NoText
         IN  IF action = "created"
             THEN make_change_to_database(d, ADD, Label(label_name),
                                          storage_ok)
             ELSE IF prior_name # NoText
             THEN LET label == get_label_by_name(d, prior_name).val
                  IN  IF IsNone(label)
                      THEN Step(d, "AttributeError", <<>>)  \* None.name = ...
                      ELSE make_change_to_database(d, UPDATE,
                               [label.some EXCEPT !.name = label_name],
                               storage_ok)
             ELSE IF action = "deleted"
             THEN LET label == get_label_by_name(d, label_name).val
                  IN  make_change_to_database(d, REMOVE,
                          IF IsNone(label) THEN Label(NoText) ELSE label.some,
                          storage_ok)
             ELSE Step(d, "none", <<>>)

\* a variant that persists the milestone on every edit
process_milestone_event_info_any_edit(d, payload, storage_ok) ==
    LET found == get_milestone_by_title(
                     d, [str |-> payload.milestone.some.title]).val
    IN  IF payload.action = "created"
        THEN make_change_to_database(
                 d, ADD, Milestone(payload.milestone.some.title), storage_ok)
        ELSE IF IsNone(found) THEN Step(d, "AttributeError", <<>>)
        ELSE make_change_to_database(d, UPDATE, found.some, storage_ok)

process_milestone_event_info(d, payload, storage_ok) ==
    IF IsNone(payload.milestone)
    THEN Step(d, "KeyError", <<>>)
    ELSE LET action == payload.action
             milestone_title == payload.milestone.some.title
             changes == payload.changes
             \* prior_title = payload['changes']['title'], a dict
             prior_title ==
                 IF Truthy(changes) /\ ~IsNone(dict_get(changes, "title"))
                 THEN dict_get(changes, "title")
                 ELSE None
         IN  IF action = "created"
             THEN make_change_to_database(d, ADD, Milestone(milestone_title),
                                          storage_ok)
             ELSE IF ~IsNone(prior_title)
             THEN LET found == get_milestone_by_title(d, prior_title.some)
                  IN  IF Raised(found) THEN Step(d, found.exc, <<>>)
                      ELSE IF IsNone(found.val)
                      THEN Step(d, "AttributeError", <<>>)
                      ELSE make_change_to_database(d, UPDATE,
                               [found.val.some EXCEPT
                                    !.title = milestone_title],
                               storage_ok)
             ELSE IF action = "deleted"
             THEN LET found ==
                          get_milestone_by_title(
                              d, [str |-> milestone_title]).val
                  IN  make_change_to_database(d, REMOVE,
                          IF IsNone(found) THEN Milestone(NoText)
                          ELSE found.some,
                          storage_ok)
             ELSE Step(d, "none", <<>>)

(***************************************************************************)
(* Request bodies.  A raw body is identified by its number; json_loads is  *)
(* json.loads on it: body 0 is not JSON, the others are payloads of        *)
(* issues, label and milestone events.                                     *)
(***************************************************************************)
CREATED_AT == "2018-07-30T13:22:36Z"
UPDATED_AT == "2018-08-03T09:17:20Z"

Change(key, from) == Some({[key |-> key, from |-> from]})

PlainIssueActions ==
    <<"opened", "closed", "reopened", "milestoned", "unmilestoned",
      "demilestoned", "assigned", "unassigned", "pinned">>

IssueShapes ==
    [i \in 1..Len(PlainIssueActions) |->
        [action |-> PlainIssueActions[i], changes |-> None, label |-> None]]
    \o <<[action |-> "edited", changes |-> Change("body", "t1"),
          label |-> None],
         [action |-> "edited", changes |-> Change("title", "t1"),
          label |-> None],
         [action |-> "labeled", changes |-> None,
          label |-> Some([name |-> "l1"])],
         [action |-> "labeled", changes |-> None,
          label |-> Some([name |-> "l2"])],
         [action |-> "unlabeled", changes |-> None,
          label |-> Some([name |-> "l1"])],
         [action |-> "unlabeled", changes |-> None,
          label |-> Some([name |-> "l2"])]>>

IssueNumbers == <<1, 2>>
IssueTitles == <<"t2">>
IssueMilestones == <<None, Some([title |-> "m1"]), Some([title |-> "m2"])>>

LabelShapes ==
    <<[action |-> "created", changes |-> None],
      [action |-> "deleted", changes |-> None],
      [action |-> "edited", changes |-> Change("color", "fff")],
      [action |-> "edited", changes |-> Change("name", "l1")],
      [action |-> "edited", changes |-> Change("name", "l2")]>>

LabelNames == <<"l1", "l2">>

MilestoneShapes ==
    <<[action |-> "created", changes |-> None],
      [action |-> "deleted", changes |-> None],
      [action |-> "closed", changes |-> None],
      [action |-> "opened", changes |-> None],
      [action |-> "edited", changes |-> Change("due_on", "never")],
      [action |-> "edited", changes |-> Change("title", "m1")],
      [action |-> "edited", changes |-> Change("title", "m2")]>>

MilestoneTitles == <<"m1", "m2">>

NumIssueBodies ==
    Len(IssueShapes) * Len(IssueNumbers) * Len(IssueTitles)
        * Len(IssueMilestones)
NumLabelBodies == Len(LabelShapes) * Len(LabelNames)
NumMilestoneBodies == Len(MilestoneShapes) * Len(MilestoneTitles)

NotJSON == 0
IssueBodies == 1..NumIssueBodies
LabelBodies == (NumIssueBodies + 1)..(NumIssueBodies + NumLabelBodies)
MilestoneBodies ==
    (NumIssueBodies + NumLabelBodies + 1)
        ..(NumIssueBodies + NumLabelBodies + NumMilestoneBodies)

IssuePayload(k) ==
    LET shape == IssueShapes[(k % Len(IssueShapes)) + 1]
        k1 == k \div Len(IssueShapes)
        number == IssueNumbers[(k1 % Len(IssueNumbers)) + 1]
        k2 == k1 \div Len(IssueNumbers)
        title == IssueTitles[(k2 % Len(IssueTitles)) + 1]
        k3 == k2 \div Len(IssueTitles)
        milestone == IssueMilestones[(k3 % Len(IssueMilestones)) + 1]
    IN  [action |-> shape.action, changes |-> shape.changes,
         issue |-> Some([number |-> number, title |-> title,
                         created_at |-> CREATED_AT, updated_at |-> UPDATED_AT,
                         milestone |-> milestone]),
         label |-> shape.label, milestone |-> None,
         sender |-> Some([login |-> "laghee"])]

LabelPayload(k) ==
    LET shape == LabelShapes[(k % Len(LabelShapes)) + 1]
        name == LabelNames[(k \div Len(LabelShapes)) + 1]
    IN  [action |-> shape.action, changes |-> shape.changes, issue |-> None,
         label |-> Some([name |-> name]), milestone |-> None,
         sender |-> Some([login |-> "laghee"])]

MilestonePayload(k) ==
    LET shape == MilestoneShapes[(k % Len(MilestoneShapes)) + 1]
        title == MilestoneTitles[(k \div Len(MilestoneShapes)) + 1]
    IN  [action |-> shape.action, changes |-> shape.changes, issue |-> None,
         label |-> None, milestone |-> Some([title |-> title]),
         sender |-> Some([login |-> "laghee"])]

json_loads(data) ==
    IF data \in IssueBodies THEN Return(IssuePayload(data - 1))
    ELSE IF data \in LabelBodies
    THEN Return(LabelPayload(data - NumIssueBodies - 1))
    ELSE IF data \in MilestoneBodies
    THEN Return(MilestonePayload(data - NumIssueBodies - NumLabelBodies - 1))
    ELSE Raise("ValueError")

\* the event type GitHub sends with a body
EventTypeOf(data) ==
    IF data \in IssueBodies THEN "issues"
    ELSE IF data \in LabelBodies THEN "label"
    ELSE "milestone"

(***************************************************************************)
(* Webhook Dispatcher: the /webhooks/ghevents endpoint.                    *)
(***************************************************************************)
Response(status, body) == [status |-> status, body |-> body]

MOVE_ALONG == Response(401, "Move along, nothing to see here")
NOT_THE_HOOK == Response(403, "This is not the hook we seek.")
CIRCULAR_FILE == Response(202, "We may just circular-file that, but thanks!")
PONG == Response(200, "pong")
YAY_DATA == Response(200, "Yay! Data! *munch, munch, munch*")
\* what the framework answers when the handler raises
INTERNAL_SERVER_ERROR == Response(500, "Internal Server Error")

Outcome(resp, d, calls) == [response |-> resp, db |-> d, calls |-> calls]

\* the response once a Reconciler step is over
Processed(step) ==
    Outcome(IF step.exc = "none" THEN YAY_DATA ELSE INTERNAL_SERVER_ERROR,
            step.db, step.calls)

ghevents_hooklistener(d, req, secret, oracle) ==
    LET hook == is_github_hook(req, secret)
        parsed == json_loads(req.data)
        payload == parsed.val
        event_type == req.headers.X_GitHub_Event.some
        action == payload.action
        changes == payload.changes
        info == extract_issue_event_info(payload, action, changes)
    IN  IF Raised(hook) THEN Outcome(INTERNAL_SERVER_ERROR, d, <<>>)
        ELSE IF ~hook.val THEN Outcome(MOVE_ALONG, d, <<>>)
        ELSE IF Raised(parsed)
        THEN Outcome(Response(oracle.unparsable, "Internal Server Error"),
                     d, <<>>)
        ELSE IF event_type = "issues"
        THEN IF is_desirable_issue_event(action, changes).val
             THEN IF Raised(info)
                  THEN Outcome(INTERNAL_SERVER_ERROR, d, <<>>)
                  ELSE Processed(update_db(d, info.val, action, oracle))
             ELSE Outcome(CIRCULAR_FILE, d, <<>>)
        ELSE IF event_type = "label"
        THEN IF \/ action \in {"created", "deleted"}
                \/ action = "edited" /\ HasKey(changes, "name")
             THEN Processed(process_label_event_info(d, payload,
                                                     oracle.mutation))
             ELSE Outcome(CIRCULAR_FILE, d, <<>>)
        ELSE IF event_type = "milestone"
        THEN IF \/ action \in {"created", "deleted"}
                \/ action = "edited" /\ HasKey(changes, "title")
             THEN Processed(process_milestone_event_info(d, payload,
                                                         oracle.mutation))
             ELSE Outcome(CIRCULAR_FILE, d, <<>>)
        ELSE IF event_type = "ping" THEN Outcome(PONG, d, <<>>)
        ELSE Outcome(NOT_THE_HOOK, d, <<>>)

(***************************************************************************)
(* Deliveries.  GitHub sends each body with its event type and the         *)
(* signature under the shared secret; other senders sign with another key  *)
(* or send any header they like.                                           *)
(***************************************************************************)
Bodies == {NotJSON} \cup IssueBodies \cup LabelBodies \cup MilestoneBodies

\* bodies on which every header combination is tried: one that is not
\* JSON and the first issues payload (issue 1 opened)
BoundaryBodies == {NotJSON, 1}

BoundarySignatures(body) ==
    {<<>>, SHA1_PREFIX, <<"B", "o", "o", "!">>,
     SHA1_PREFIX \o <<"a", "b", "=", "c", "d">>,
     SHA1_PREFIX \o <<"xE9">>,
     hmac_sha1_hexdigest(HMAC_KEY_LITERAL, body)}
        \cup {GitHubSignature(k, body) : k \in Keys}

Deliveries(secret) ==
    {[headers |-> [X_GitHub_Event |-> Some(EventTypeOf(b)),
                   X_Hub_Signature |-> Some(GitHubSignature(k, b))],
      data |-> b] : b \in Bodies \ {NotJSON}, k \in {secret, HMAC_KEY_LITERAL}}
    \cup
    UNION {[headers : [X_GitHub_Event :
                           {None} \cup {Some(e) : e \in EventTypes},
                       X_Hub_Signature :
                           {None} \cup {Some(p) : p \in BoundarySignatures(b)}],
            data : {b}] : b \in BoundaryBodies}

SeededStore ==
    [issue |-> {[Issue(1, "t1", CREATED_AT, 1) EXCEPT !.labels = {1}]},
     label |-> {[Label("l1") EXCEPT !.id = 1]},
     milestone |-> {[Milestone("m1") EXCEPT !.id = 1]},
     event |-> {[Event(1, "laghee", "opened", None, UPDATED_AT)
                     EXCEPT !.id = 1],
                [Event(1, "laghee", "labeled",
                       Some([key |-> "label name", value |-> "l1"]),
                       UPDATED_AT) EXCEPT !.id = 2]},
     serial |-> [label |-> 1, milestone |-> 1, event |-> 2]]

Oracles ==
    [mutation : BOOLEAN, event : BOOLEAN, unparsable : {400, 500}]

\* the secret of the deployment (the HOOK_SECRET_KEY environment variable)
Secrets == {"s3cret"}

Init ==
    /\ HOOK_SECRET_KEY \in Secrets
    /\ db \in {EmptyStore, SeededStore}
    /\ delivery = None
    /\ response = None
    /\ dbcalls = <<>>
    /\ pc = "idle"
    /\ delivered = 0
    /\ arg = None
    /\ ret = None

\* an HTTP POST to /webhooks/ghevents arrives
Receive ==
    /\ pc = "idle"
    /\ delivered < MaxDeliveries
    /\ \E req \in Deliveries(HOOK_SECRET_KEY) : delivery' = Some(req)
    /\ pc' = "received"
    /\ UNCHANGED <<HOOK_SECRET_KEY, db, response, dbcalls, delivered,
                   arg, ret>>

\* the handler runs on the delivery and its response is decided
Handle ==
    /\ pc = "received"
    /\ \E oracle \in Oracles :
          LET out == ghevents_hooklistener(db, delivery.some,
                                           HOOK_SECRET_KEY, oracle)
          IN  /\ db' = out.db
              /\ response' = Some(out.response)
              /\ dbcalls' = out.calls
    /\ pc' = "responded"
    /\ delivered' = delivered + 1
    /\ UNCHANGED <<HOOK_SECRET_KEY, delivery, arg, ret>>

\* the response is sent and the request context is torn down
Finish ==
    /\ pc = "responded"
    /\ delivery' = None
    /\ response' = None
    /\ dbcalls' = <<>>
    /\ pc' = "idle"
    /\ UNCHANGED <<HOOK_SECRET_KEY, db, delivered, arg, ret>>

Next == Receive \/ Handle \/ Finish

Spec == Init /\ [][Next]_vars

(***************************************************************************)
(* Properties of the dispatcher.                                           *)
(***************************************************************************)
EventHeader(req) == req.headers.X_GitHub_Event
SignatureHeader(req) == req.headers.X_Hub_Signature

\* the delivery carries the signature of its body under the shared secret
ValidlySigned(req) ==
    /\ ~IsNone(EventHeader(req))
    /\ SignatureHeader(req)
           = Some(GitHubSignature(HOOK_SECRET_KEY, req.data))

HasEventType(req, types) ==
    ~IsNone(EventHeader(req)) /\ EventHeader(req).some \in types

ActionOf(req) == json_loads(req.data).val.action
ChangesOf(req) == json_loads(req.data).val.changes

\* recognized event and action that the dispatcher is not to process
Ignorable(req) ==
    /\ ~Raised(json_loads(req.data))
    /\ \/ /\ HasEventType(req, {"issues"})
          /\ \/ ActionOf(req) \in {"assigned", "unassigned"}
             \/ ActionOf(req) \notin KnownIssueActions
             \/ ActionOf(req) = "edited" /\ ~HasKey(ChangesOf(req), "title")
       \/ /\ HasEventType(req, {"milestone"})
          /\ \/ ActionOf(req) \in {"opened", "closed"}
             \/ ActionOf(req) = "edited" /\ ~HasKey(ChangesOf(req), "title")

DesirableIssuesDelivery(req) ==
    /\ HasEventType(req, {"issues"})
    /\ ~Raised(json_loads(req.data))
    /\ is_desirable_issue_event(ActionOf(req), ChangesOf(req)) = Return(TRUE)

\* C1: a delivery without X-GitHub-Event, without X-Hub-Signature, or whose
\* presented signature is not the signature of its body under the secret,
\* is answered 401 and leaves every Issue, Event, Label and Milestone row
\* as it was.
C1_AuthFailureRejected ==
    [][(pc = "received" /\ ~ValidlySigned(delivery.some))
          => (response'.some.status = 401 /\ db' = db)]_vars

\* C8: a validly signed delivery of a recognized but unprocessed event or
\* action is answered 202 "We may just circular-file that, but thanks!" and
\* writes nothing to the store.
C8_IgnoredActionAcknowledged ==
    [][(/\ pc = "received"
        /\ ValidlySigned(delivery.some)
        /\ Ignorable(delivery.some))
          => (/\ response'.some = CIRCULAR_FILE
              /\ dbcalls' = <<>>
              /\ db' = db)]_vars

\* C9: a validly signed ping is answered 200 "pong", a validly signed
\* delivery of an event type other than issues, label, milestone or ping is
\* answered 403; in both cases no Reconciler operation runs and the store
\* is unchanged.
C9_PingAndUnknownEventType ==
    [][(pc = "received" /\ ValidlySigned(delivery.some)
        /\ ~HasEventType(delivery.some, {"issues", "label", "milestone"}))
          => (/\ HasEventType(delivery.some, {"ping"})
                    => response'.some = PONG
              /\ ~HasEventType(delivery.some, {"ping"})
                    => response'.some.status = 403
              /\ dbcalls' = <<>>
              /\ db' = db)]_vars

\* C10: a validly signed issues delivery whose action is desirable is
\* answered 200 "Yay! Data! *munch, munch, munch*".
C10_DesirableIssuesEventAnswered ==
    (/\ pc = "responded"
     /\ ValidlySigned(delivery.some)
     /\ DesirableIssuesDelivery(delivery.some))
        => response.some = YAY_DATA

(***************************************************************************)
(* Inputs of the Signature Verifier: request bodies are raw byte strings,  *)
(* identified by their number; presented signatures are the true digests   *)
(* under each key, their one-character corruptions, truncations and        *)
(* extensions, and arbitrary short texts, each behind several prefixes.    *)
(***************************************************************************)
SigBodies == {0, 1}

TailAlphabet == {"=", "a", "0", "xE9"}

FlipChars == {"0", "a", "b", "=", "xE9"}

Prefixes == {<<>>, SHA1_PREFIX, <<"s", "h", "a", "1">>,
             <<"s", "h", "a", "2", "=">>, <<"S", "H", "A", "1", "=">>}

ShortTexts ==
    UNION {[1..n -> TailAlphabet] : n \in 0..MaxTail}

Corruptions(d) ==
    {[d EXCEPT ![i] = c] : i \in 1..Len(d), c \in FlipChars}
        \cup {SubSeq(d, 1, Len(d) - 1), d \o <<"0">>}

Tails(body) ==
    LET digests == {hmac_sha1_hexdigest(k, body) : k \in Keys}
    IN  digests \cup UNION {Corruptions(d) : d \in digests} \cup ShortTexts

Presented(body) == {p \o t : p \in Prefixes, t \in Tails(body)}

SigRequests ==
    UNION {[headers : [X_GitHub_Event : {None, Some("issues")},
                       X_Hub_Signature :
                           {None} \cup {Some(p) : p \in Presented(b)}],
            data : {b}] : b \in SigBodies}

(***************************************************************************)
(* Specification of the Signature Verifier: the inputs are drawn from the  *)
(* sets above, then signature_check (under the configured key and under    *)
(* another key) or is_github_hook is applied.                              *)
(***************************************************************************)
InitSig ==
    /\ HOOK_SECRET_KEY \in Keys
    /\ db = EmptyStore
    /\ delivery = None
    /\ response = None
    /\ dbcalls = <<>>
    /\ pc = "idle"
    /\ delivered = 0
    /\ arg \in [other_key : Keys, request : SigRequests]
    /\ ret = None

apply_signature_check ==
    /\ IsNone(ret)
    /\ ~IsNone(arg.request.headers.X_Hub_Signature)
    /\ LET post_signature == arg.request.headers.X_Hub_Signature.some
           payload == arg.request.data
       IN  ret' = [fn |-> "signature_check",
                   r1 |-> signature_check(HOOK_SECRET_KEY, post_signature,
                                          payload),
                   r2 |-> signature_check(arg.other_key, post_signature,
                                          payload)]
    /\ UNCHANGED <<HOOK_SECRET_KEY, arg>>
    /\ UNCHANGED appvars

apply_is_github_hook ==
    /\ IsNone(ret)
    /\ ret' = [fn |-> "is_github_hook",
               r1 |-> is_github_hook(arg.request, HOOK_SECRET_KEY)]
    /\ UNCHANGED <<HOOK_SECRET_KEY, arg>>
    /\ UNCHANGED appvars

NextSig == apply_signature_check \/ apply_is_github_hook

SpecSig == InitSig /\ [][NextSig]_vars

Applied(fn) == ~IsNone(ret) /\ ret.fn = fn

\* the X-Hub-Signature text of the request under application ("" if absent)
PresentedText ==
    IF IsNone(arg.request.headers.X_Hub_Signature) THEN <<>>
    ELSE arg.request.headers.X_Hub_Signature.some

\* C2: for two different secrets and one body, a presented signature that
\* signature_check accepts under the first secret is rejected under the
\* second one: acceptance depends on the secret.
C2_AcceptanceDependsOnSecret ==
    (/\ Applied("signature_check")
     /\ HOOK_SECRET_KEY # arg.other_key
     /\ ret.r1 = Return(TRUE))
        => ret.r2 = Return(FALSE)

\* C3: signature_check accepts "sha1=" + hex(HMAC-SHA1(K, B)) under K for
\* every K and B, rejects every presented text that differs from it, and
\* rejects every text that does not start with "sha1=".
C3_SignatureCheckContract ==
    Applied("signature_check") =>
        LET good == GitHubSignature(HOOK_SECRET_KEY, arg.request.data)
        IN  /\ PresentedText = good => ret.r1 = Return(TRUE)
            /\ PresentedText # good => ret.r1 = Return(FALSE)
            /\ ~startswith(PresentedText, SHA1_PREFIX)
                   => ret.r1 = Return(FALSE)

\* C4: signature_check and is_github_hook never raise, and for an empty
\* text, for "sha1=" alone and for a text with more than one "=" the
\* outcome is the value false.
C4_VerifierNeverRaises ==
    ~IsNone(ret) =>
        /\ ~Raised(ret.r1)
        /\ Applied("signature_check") => ~Raised(ret.r2)
        /\ (\/ PresentedText \in {<<>>, SHA1_PREFIX}
            \/ Len(split(PresentedText, "=")) > 2)
               => ret.r1 = Return(FALSE)

(***************************************************************************)
(* Inputs of the Event Classifier.                                         *)
(***************************************************************************)
UnknownIssueActions == {"demilestoned", "pinned", "deleted", "transferred"}

IssueActions == KnownIssueActions \cup UnknownIssueActions

Titles == {"t1", "t2"}

\* dicts over the given keys whose values are {"from": f}, f in froms
Dicts(keys, froms) ==
    {S \in SUBSET [key : keys, from : froms] :
        \A e1, e2 \in S : e1.key = e2.key => e1 = e2}

IssueChangeSets ==
    {None} \cup {Some(S) : S \in Dicts({"title", "body"}, Titles)}

(***************************************************************************)
(* Specification of the Event Classifier: an action and a change-set are   *)
(* drawn, then is_desirable_issue_event is applied.                        *)
(***************************************************************************)
InitClassify ==
    /\ HOOK_SECRET_KEY = "s3cret"
    /\ db = EmptyStore
    /\ delivery = None
    /\ response = None
    /\ dbcalls = <<>>
    /\ pc = "idle"
    /\ delivered = 0
    /\ arg \in [action : IssueActions, changes : IssueChangeSets]
    /\ ret = None

apply_is_desirable_issue_event ==
    /\ IsNone(ret)
    /\ ret' = [fn |-> "is_desirable_issue_event",
               r1 |-> is_desirable_issue_event(arg.action, arg.changes)]
    /\ UNCHANGED <<HOOK_SECRET_KEY, arg>>
    /\ UNCHANGED appvars

NextClassify == apply_is_desirable_issue_event

SpecClassify == InitClassify /\ [][NextClassify]_vars

\* C5: is_desirable_issue_event returns true for opened, closed, reopened,
\* labeled, unlabeled, milestoned and unmilestoned, whatever the change-set
\* (absent, empty, with or without a title entry).
C5_AlwaysDesirableActions ==
    (Applied("is_desirable_issue_event") /\ arg.action \in AlwaysDesirable)
        => ret.r1 = Return(TRUE)

C5_Witness ==
    /\ Applied("is_desirable_issue_event")
    /\ arg.action = "unmilestoned"
    /\ HasKey(arg.changes, "title")
    /\ ret.r1 = Return(TRUE)

\* C6: for action edited, is_desirable_issue_event returns true if and only
\* if the change-set contains a title key; for an absent, an empty or a
\* title-less change-set it returns false and does not raise.
C6_EditedDesirableIffTitle ==
    (Applied("is_desirable_issue_event") /\ arg.action = "edited")
        => ret.r1 = Return(HasKey(arg.changes, "title"))

C6_Witness ==
    /\ Applied("is_desirable_issue_event")
    /\ arg.action = "edited"
    /\ IsNone(arg.changes)
    /\ ret.r1 = Return(FALSE)

\* C7: is_desirable_issue_event returns false for assigned and unassigned,
\* and false without raising for every action outside the known set.
C7_AssignmentAndUnknownUndesirable ==
    (/\ Applied("is_desirable_issue_event")
     /\ \/ arg.action \in {"assigned", "unassigned"}
        \/ arg.action \notin KnownIssueActions)
        => ret.r1 = Return(FALSE)

C7_Witness ==
    /\ Applied("is_desirable_issue_event")
    /\ arg.action = "pinned"
    /\ ret.r1 = Return(FALSE)

(***************************************************************************)
(* Specification of the Payload Extractor: an issues payload is drawn,     *)
(* then extract_issue_event_info is applied to it with its action and its  *)
(* change-set, as the dispatcher does.                                     *)
(***************************************************************************)
InitExtract ==
    /\ HOOK_SECRET_KEY = "s3cret"
    /\ db = EmptyStore
    /\ delivery = None
    /\ response = None
    /\ dbcalls = <<>>
    /\ pc = "idle"
    /\ delivered = 0
    /\ arg \in {[payload |-> IssuePayload(b - 1)] : b \in IssueBodies}
    /\ ret = None

apply_extract_issue_event_info ==
    /\ IsNone(ret)
    /\ ret' = [fn |-> "extract_issue_event_info",
               r1 |-> extract_issue_event_info(arg.payload,
                                               arg.payload.action,
                                               arg.payload.changes)]
    /\ UNCHANGED <<HOOK_SECRET_KEY, arg>>
    /\ UNCHANGED appvars

NextExtract == apply_extract_issue_event_info

SpecExtract == InitExtract /\ [][NextExtract]_vars

\* the details the record is to hold for a payload
ExpectedDetails(payload) ==
    IF payload.action \in {"labeled", "unlabeled"}
    THEN Some([key |-> "label name", value |-> payload.label.some.name])
    ELSE IF payload.action = "edited" /\ HasKey(payload.changes, "title")
    THEN Some([key |-> "old title",
               value |-> dict_get(payload.changes, "title").some.from])
    ELSE None

\* C11: extract_issue_event_info returns a record whose issue_id, title,
\* created_at and actor are the payload's issue number, issue title, issue
\* created_at and sender login, whose action is the given action, whose
\* milestone is the title of the issue's milestone object (null if there is
\* none), whose received_at is the issue's updated_at, and whose details is
\* null for opened, closed, reopened and title-less edits, the old title
\* for title edits and the label name for labeled and unlabeled.
C11_ExtractedRecord ==
    Applied("extract_issue_event_info") =>
        LET payload == arg.payload
            issue == payload.issue.some
            info == ret.r1.val
        IN  /\ payload.action \in {"opened", "closed", "reopened", "edited",
                                   "labeled", "unlabeled"}
                   => /\ ~Raised(ret.r1)
                      /\ info.details = ExpectedDetails(payload)
            /\ ~Raised(ret.r1)
                   => /\ info.issue_id = issue.number
                      /\ info.title = issue.title
                      /\ info.created_at = issue.created_at
                      /\ info.actor = payload.sender.some.login
                      /\ info.action = payload.action
                      /\ info.milestone =
                            (IF IsNone(issue.milestone) THEN NoText
                             ELSE issue.milestone.some.title)
                      /\ info.received_at = issue.updated_at

C11_Witness ==
    /\ Applied("extract_issue_event_info")
    /\ arg.payload.action = "edited"
    /\ HasKey(arg.payload.changes, "title")
    /\ ~IsNone(arg.payload.issue.some.milestone)
    /\ ~Raised(ret.r1)
    /\ ret.r1.val.details = Some([key |-> "old title", value |-> "t1"])
    /\ ret.r1.val.title = "t2"
    /\ ret.r1.val.milestone = "m1"
    /\ ret.r1.val.received_at = UPDATED_AT

\* C12: for milestoned, unmilestoned and demilestoned, applied to a payload
\* without a label object whose issue carries a milestone,
\* extract_issue_event_info returns, and the details hold the milestone
\* title.
C12_MilestoneActionsGiveMilestoneTitle ==
    (/\ Applied("extract_issue_event_info")
     /\ arg.payload.action \in {"milestoned", "unmilestoned", "demilestoned"}
     /\ IsNone(arg.payload.label)
     /\ ~IsNone(arg.payload.issue.some.milestone))
        => /\ ~Raised(ret.r1)
           /\ ret.r1.val.details =
                  Some([key |-> "milestone title",
                        value |-> arg.payload.issue.some.milestone.some.title])

(***************************************************************************)
(* Inputs of the Database Reconciler: the records the extractor returns    *)
(* for the issues payloads, the records the unit tests build by hand for   *)
(* issue_milestone_change, the label and milestone payloads, and rows to   *)
(* persist.                                                                *)
(***************************************************************************)
ExtractedInfos ==
    LET extracted(p) == extract_issue_event_info(p, p.action, p.changes)
    IN  {extracted(IssuePayload(b - 1)).val :
            b \in {c \in IssueBodies :
                      LET p == IssuePayload(c - 1)
                      IN  /\ is_desirable_issue_event(p.action, p.changes).val
                          /\ ~Raised(extracted(p))
                          /\ p.issue.some.milestone
                                 \in {None, Some([title |-> "m1"])}}}

MilestoneChangeInfos ==
    {[issue_id |-> n, title |-> "t2", created_at |-> CREATED_AT,
      milestone |-> m, actor |-> "laghee", action |-> a, details |-> None,
      received_at |-> UPDATED_AT] :
        n \in {1, 2}, m \in {NoText, "m1", "m2"},
        a \in {"milestoned", "demilestoned", "unmilestoned"}}

LabelPayloads == {LabelPayload(k) : k \in 0..(NumLabelBodies - 1)}

MilestonePayloads == {MilestonePayload(k) : k \in 0..(NumMilestoneBodies - 1)}

\* what a caller can hand to make_change_to_database: a new object with
\* Add, a stored row (loaded and possibly modified) with Update or Remove
Changes(d) ==
    [operation : {ADD},
     item : {Label("l2"), Milestone("m1"), Milestone("m2"),
             Issue(2, "t2", CREATED_AT, NoId),
             Event(1, "laghee", "closed", None, UPDATED_AT)}]
    \cup [operation : {UPDATE, REMOVE}, item : d.label \cup d.milestone]
    \cup [operation : {UPDATE},
          item : {[i EXCEPT !.is_open = FALSE] : i \in d.issue}
                 \cup {[m EXCEPT !.title = "m2"] : m \in d.milestone}]

(***************************************************************************)
(* Specification of the Database Reconciler: starting from an empty or a   *)
(* seeded store, up to MaxOps operations are applied one after the other.  *)
(* `ret` records the operation applied last, its input, the store before   *)
(* it and its outcome; `arg` remembers the issue_milestone_change applied  *)
(* just before it, if any.                                                 *)
(***************************************************************************)
InitReconcile ==
    /\ HOOK_SECRET_KEY = "s3cret"
    /\ db \in {EmptyStore, SeededStore}
    /\ delivery = None
    /\ response = None
    /\ dbcalls = <<>>
    /\ pc = "idle"
    /\ delivered = 0
    /\ arg = None
    /\ ret = None

\* the bookkeeping shared by the operations
Apply(fn, input, storage_ok, step) ==
    /\ delivered < MaxOps
    /\ delivered' = delivered + 1
    /\ db' = step.db
    /\ ret' = [fn |-> fn, input |-> input, ok |-> storage_ok,
               before |-> db, exc |-> step.exc, calls |-> step.calls]
    /\ arg' = IF ~IsNone(ret) /\ ret.fn = "issue_milestone_change"
              THEN Some([action |-> ret.input.action,
                         issue_id |-> ret.input.issue_id,
                         exc |-> ret.exc, ok |-> ret.ok])
              ELSE None
    /\ UNCHANGED <<HOOK_SECRET_KEY, delivery, response, dbcalls, pc>>

apply_make_change_to_database ==
    \E change \in Changes(db), storage_ok \in BOOLEAN :
        Apply("make_change_to_database", change, storage_ok,
              make_change_to_database(db, change.operation, change.item,
                                      storage_ok))

apply_update_db ==
    \E info \in ExtractedInfos, oracle \in Oracles :
        /\ oracle.unparsable = 500
        /\ Apply("update_db", info, oracle.mutation,
                 update_db(db, info, info.action, oracle))

apply_issue_milestone_change ==
    \E info \in MilestoneChangeInfos, storage_ok \in BOOLEAN :
        Apply("issue_milestone_change", info, storage_ok,
              issue_milestone_change(db, info, storage_ok))

apply_process_label_event_info ==
    \E payload \in LabelPayloads, storage_ok \in BOOLEAN :
        Apply("process_label_event_info", payload, storage_ok,
              process_label_event_info(db, payload, storage_ok))

apply_process_milestone_event_info ==
    \E payload \in MilestonePayloads, storage_ok \in BOOLEAN :
        Apply("process_milestone_event_info", payload, storage_ok,
              process_milestone_event_info(db, payload, storage_ok))

NextReconcile ==
    \/ apply_make_change_to_database
    \/ apply_update_db
    \/ apply_issue_milestone_change
    \/ apply_process_label_event_info
    \/ apply_process_milestone_event_info

SpecReconcile == InitReconcile /\ [][NextReconcile]_vars

(***************************************************************************)
(* Properties of the Database Reconciler.                                  *)
(***************************************************************************)
\* the rows of a table of the store before the last operation that match
LabelsNamed(d, name) == {l \in d.label : l.name = name}
MilestonesTitled(d, title) == {m \in d.milestone : m.title = title}
IssuesNumbered(d, id) == {i \in d.issue : i.id = id}

\* the name or title a change-set gives as the previous one
PriorOf(payload, key) == dict_get(payload.changes, key).some.from

OkCall(operation, table) == [op |-> operation, table |-> table, ok |-> TRUE]

\* C13: for a label event edited whose change-set has name.from = old,
\* process_label_event_info resolves the stored label by old, not by the
\* new name: the row that had the name old has the payload's label name
\* afterwards, every other row is as before, and exactly one Update is
\* persisted.
C13_LabelRenamedByPriorName ==
    (/\ Applied("process_label_event_info")
     /\ ret.input.action = "edited"
     /\ HasKey(ret.input.changes, "name")
     /\ Cardinality(LabelsNamed(ret.before, PriorOf(ret.input, "name"))) = 1
     /\ ret.ok)
        => LET old == CHOOSE l \in LabelsNamed(ret.before,
                                               PriorOf(ret.input, "name")) :
                          TRUE
           IN  /\ ret.exc = "none"
               /\ ret.calls = <<OkCall(UPDATE, "label")>>
               /\ db = [ret.before EXCEPT
                          !.label = (@ \ {old}) \cup
                              {[old EXCEPT
                                  !.name = ret.input.label.some.name]}]

C13_Witness ==
    /\ Applied("process_label_event_info")
    /\ ret.input.action = "edited"
    /\ HasKey(ret.input.changes, "name")
    /\ PriorOf(ret.input, "name") = "l1"
    /\ ret.input.label.some.name = "l2"
    /\ Cardinality(LabelsNamed(ret.before, "l1")) = 1
    /\ Cardinality(LabelsNamed(ret.before, "l2")) = 1
    /\ ret.calls = <<OkCall(UPDATE, "label")>>
    /\ LabelsNamed(db, "l1") = {}
    /\ Cardinality(LabelsNamed(db, "l2")) = 2

\* C14: for a milestone event edited whose change-set has a title entry,
\* process_milestone_event_info resolves the stored milestone by the prior
\* title (changes.title.from), and that row has the payload's milestone
\* title afterwards.
C14_MilestoneRenamedByPriorTitle ==
    (/\ Applied("process_milestone_event_info")
     /\ ret.input.action = "edited"
     /\ HasKey(ret.input.changes, "title")
     /\ Cardinality(MilestonesTitled(ret.before,
                                     PriorOf(ret.input, "title"))) = 1
     /\ MilestonesTitled(ret.before, ret.input.milestone.some.title) = {}
     /\ ret.ok)
        => LET old == CHOOSE m \in MilestonesTitled(
                                       ret.before,
                                       PriorOf(ret.input, "title")) : TRUE
           IN  /\ ret.exc = "none"
               /\ db.milestone =
                     (ret.before.milestone \ {old}) \cup
                         {[old EXCEPT
                             !.title = ret.input.milestone.some.title]}

\* C15: a label event deleted removes the stored label found by the
\* payload's label name, a milestone event deleted removes the stored
\* milestone found by the payload's title: once the operation is over and
\* its unit of work is committed, no row with that name or title is left.
C15_DeletedRowRemoved ==
    /\ (/\ Applied("process_label_event_info")
        /\ ret.input.action = "deleted"
        /\ ret.ok)
           => /\ ret.exc = "none"
              /\ LabelsNamed(db, ret.input.label.some.name) = {}
    /\ (/\ Applied("process_milestone_event_info")
        /\ ret.input.action = "deleted"
        /\ ret.ok)
           => /\ ret.exc = "none"
              /\ MilestonesTitled(db, ret.input.milestone.some.title) = {}

\* C16: when the commit of make_change_to_database meets a storage error,
\* for Add, Update and Remove alike, the unit of work is rolled back (the
\* Issue, Event, Label and Milestone rows are those of before) and no
\* exception reaches the caller.
C16_CommitFailureRolledBack ==
    (Applied("make_change_to_database") /\ ~ret.ok)
        => /\ db = ret.before
           /\ ret.exc = "none"

\* C17: issue_milestone_change with action demilestoned or unmilestoned
\* leaves the stored Issue with a null milestone_id, and with action
\* milestoned with the id of the Milestone found by the record's milestone
\* title; neither step raises and is_open, title and labels (every other
\* column and row) are unchanged, also when the second follows the first.
C17_MilestoneChangeSteps ==
    (/\ Applied("issue_milestone_change")
     /\ Cardinality(IssuesNumbered(ret.before, ret.input.issue_id)) = 1
     /\ ret.input.action = "milestoned"
            => Cardinality(MilestonesTitled(ret.before,
                                            ret.input.milestone)) = 1
     /\ ret.ok)
        => LET issue == CHOOSE i \in IssuesNumbered(ret.before,
                                                   ret.input.issue_id) : TRUE
               milestone_id ==
                   IF ret.input.action = "milestoned"
                   THEN (CHOOSE m \in MilestonesTitled(
                                          ret.before,
                                          ret.input.milestone) : TRUE).id
                   ELSE NoId
           IN  /\ ret.exc = "none"
               /\ db = [ret.before EXCEPT
                          !.issue = (@ \ {issue}) \cup
                              {[issue EXCEPT !.milestone_id = milestone_id]}]

\* demilestoned then milestoned on issue 1: null in between, the id of
\* milestone m1 afterwards
C17_Witness ==
    /\ Applied("issue_milestone_change")
    /\ ~IsNone(arg)
    /\ arg.some = [action |-> "demilestoned", issue_id |-> 1,
                   exc |-> "none", ok |-> TRUE]
    /\ ret.input.action = "milestoned"
    /\ ret.input.issue_id = 1
    /\ ret.input.milestone = "m1"
    /\ ret.exc = "none"
    /\ \A i \in IssuesNumbered(ret.before, 1) : i.milestone_id = NoId
    /\ \E i \in IssuesNumbered(db, 1) :
           /\ i.milestone_id # NoId
           /\ \E m \in MilestonesTitled(db, "m1") : m.id = i.milestone_id
           /\ i.labels = {1} /\ i.is_open /\ i.header = "t1"

\* C18: update_db attempts exactly one Event append for every desirable
\* issues action, after the state mutation of the action, also when that
\* mutation is skipped or fails because a lookup found nothing or there
\* was nothing to change.
C18_OneEventAppendPerAction ==
    Applied("update_db")
        => /\ Len(ret.calls) >= 1
           /\ ret.calls[Len(ret.calls)].table = "event"
           /\ ret.calls[Len(ret.calls)].op = ADD
           /\ Cardinality({k \in 1..Len(ret.calls) :
                              ret.calls[k].table = "event"}) = 1

(***************************************************************************)
(* Properties of the store under deliveries (specification Spec).          *)
(***************************************************************************)
\* the issue number of an issues delivery
IssueNumberOf(req) == json_loads(req.data).val.issue.some.number

EventsOf(d, id) == {e \in d.event : e.issue_id = id}

\* C19: in every reachable state of the store every Event row's issue_id
\* is the id of a stored Issue row; an issues event for an Issue that is
\* not stored leaves no Event row.
C19_EventsReferenceStoredIssues ==
    \A e \in db.event : \E i \in db.issue : i.id = e.issue_id

\* an accepted issues delivery for an issue that is not stored: the Event
\* append was attempted and refused
C19_Witness ==
    /\ pc = "responded"
    /\ HasEventType(delivery.some, {"issues"})
    /\ ~Raised(json_loads(delivery.some.data))
    /\ IssuesNumbered(db, IssueNumberOf(delivery.some)) = {}
    /\ dbcalls = <<[op |-> ADD, table |-> "event", ok |-> FALSE]>>
    /\ response.some = YAY_DATA
    /\ EventsOf(db, IssueNumberOf(delivery.some)) = {}

\* C20: deliveries are not deduplicated: every validly signed delivery of
\* a desirable issues event for a stored Issue runs the Reconciler and
\* appends an Event row of its own, so that n deliveries of one content
\* add n Event rows for the Issue.
C20_EveryDeliveryAppendsAnEvent ==
    [][(/\ pc = "received"
        /\ ValidlySigned(delivery.some)
        /\ DesirableIssuesDelivery(delivery.some)
        /\ IssuesNumbered(db, IssueNumberOf(delivery.some)) # {})
          => Cardinality(EventsOf(db', IssueNumberOf(delivery.some)))
                = Cardinality(EventsOf(db, IssueNumberOf(delivery.some))) + 1
       ]_vars

(***************************************************************************)
(* Specification of the lookups: a store and a key are drawn, then         *)
(* get_issue_by_id, get_label_by_name or get_milestone_by_title is         *)
(* applied.  Label and milestone ids are handed out in sequence and no row *)
(* is ever deleted; label names are not unique.                            *)
(***************************************************************************)
LookupLabels ==
    <<[Label("l1") EXCEPT !.id = 1], [Label("l2") EXCEPT !.id = 2],
      [Label("l1") EXCEPT !.id = 3]>>

LookupMilestones ==
    <<[Milestone("m1") EXCEPT !.id = 1], [Milestone("m2") EXCEPT !.id = 2]>>

LookupStores ==
    {[issue |-> I,
      label |-> {LookupLabels[k] : k \in 1..nl},
      milestone |-> {LookupMilestones[k] : k \in 1..nm},
      event |-> {},
      serial |-> [label |-> nl, milestone |-> nm, event |-> 0]] :
        I \in SUBSET {Issue(1, "t1", CREATED_AT, NoId),
                      Issue(2, "t2", CREATED_AT, NoId)},
        nl \in 0..Len(LookupLabels), nm \in 0..Len(LookupMilestones)}

InitLookup ==
    /\ HOOK_SECRET_KEY = "s3cret"
    /\ db \in LookupStores
    /\ delivery = None
    /\ response = None
    /\ dbcalls = <<>>
    /\ pc = "idle"
    /\ delivered = 0
    /\ arg \in [id : {1, 2}, name : {"l1", "l2"}, title : {"m1", "m2"}]
    /\ ret = None

apply_get_issue_by_id ==
    /\ IsNone(ret)
    /\ ret' = [fn |-> "get_issue_by_id", r1 |-> get_issue_by_id(db, arg.id)]
    /\ UNCHANGED <<HOOK_SECRET_KEY, arg>>
    /\ UNCHANGED appvars

apply_get_label_by_name ==
    /\ IsNone(ret)
    /\ ret' = [fn |-> "get_label_by_name",
               r1 |-> get_label_by_name(db, arg.name)]
    /\ UNCHANGED <<HOOK_SECRET_KEY, arg>>
    /\ UNCHANGED appvars

apply_get_milestone_by_title ==
    /\ IsNone(ret)
    /\ ret' = [fn |-> "get_milestone_by_title",
               r1 |-> get_milestone_by_title(db, [str |-> arg.title])]
    /\ UNCHANGED <<HOOK_SECRET_KEY, arg>>
    /\ UNCHANGED appvars

NextLookup ==
    \/ apply_get_issue_by_id
    \/ apply_get_label_by_name
    \/ apply_get_milestone_by_title

SpecLookup == InitLookup /\ [][NextLookup]_vars

\* the entity if exactly one of the rows matches, null otherwise
TheOnly(rows) ==
    IF Cardinality(rows) = 1 THEN Some(CHOOSE r \in rows : TRUE) ELSE None

\* C21: get_issue_by_id, get_label_by_name and get_milestone_by_title
\* return the matching entity when exactly one stored row matches, and
\* return null without raising when no row or more than one row matches.
C21_LookupsReturnEntityOrNull ==
    /\ Applied("get_issue_by_id")
           => ret.r1 = Return(TheOnly(IssuesNumbered(db, arg.id)))
    /\ Applied("get_label_by_name")
           => ret.r1 = Return(TheOnly(LabelsNamed(db, arg.name)))
    /\ Applied("get_milestone_by_title")
           => ret.r1 = Return(TheOnly(MilestonesTitled(db, arg.title)))

(***************************************************************************)
(* Specification of the issue operations of the Reconciler: starting from  *)
(* an empty, a seeded or a stocked store, up to MaxOps of add_new_issue,   *)
(* issue_title_edit, issue_status_change and issue_label_change are        *)
(* applied to hand-built normalized records.                               *)
(***************************************************************************)
\* the seeded store after label l2 and milestone m2 were created, issue 2
\* was opened, labeled l1 and l2, and closed
StockedStore ==
    [SeededStore EXCEPT
        !.issue = @ \cup {[Issue(2, "t2", CREATED_AT, NoId) EXCEPT
                              !.labels = {1, 2}, !.is_open = FALSE]},
        !.label = @ \cup {[Label("l2") EXCEPT !.id = 2]},
        !.milestone = @ \cup {[Milestone("m2") EXCEPT !.id = 2]},
        !.serial = [label |-> 2, milestone |-> 2, event |-> 2]]

IssueOpInfos(numbers, milestones, actions, details) ==
    {[issue_id |-> n, title |-> "t3", created_at |-> CREATED_AT,
      milestone |-> m, actor |-> "laghee", action |-> a, details |-> x,
      received_at |-> UPDATED_AT] :
        n \in numbers, m \in milestones, a \in actions, x \in details}

LabelDetails ==
    {Some([key |-> "label name", value |-> name]) : name \in {"l1", "l2", "l3"}}

InitIssue ==
    /\ HOOK_SECRET_KEY = "s3cret"
    /\ db \in {EmptyStore, SeededStore, StockedStore}
    /\ delivery = None
    /\ response = None
    /\ dbcalls = <<>>
    /\ pc = "idle"
    /\ delivered = 0
    /\ arg = None
    /\ ret = None

apply_add_new_issue ==
    \E info \in IssueOpInfos({1, 2, 3}, {NoText, "m1", "m2", "m3"},
                              {"opened"}, {None}),
       storage_ok \in BOOLEAN :
        Apply("add_new_issue", info, storage_ok,
              add_new_issue(db, info, storage_ok))

apply_issue_title_edit ==
    \E info \in IssueOpInfos({1, 2, 3}, {NoText}, {"edited"},
                              {Some([key |-> "old title", value |-> "t1"])}),
       storage_ok \in BOOLEAN :
        Apply("issue_title_edit", info, storage_ok,
              issue_title_edit(db, info, storage_ok))

apply_issue_status_change ==
    \E info \in IssueOpInfos({1, 2, 3}, {NoText}, {"closed", "reopened"},
                              {None}),
       storage_ok \in BOOLEAN :
        Apply("issue_status_change", info, storage_ok,
              issue_status_change(db, info, info.action, storage_ok))

apply_issue_label_change ==
    \E info \in IssueOpInfos({1, 2, 3}, {NoText}, {"labeled", "unlabeled"},
                              LabelDetails),
       storage_ok \in BOOLEAN :
        Apply("issue_label_change", info, storage_ok,
              issue_label_change(db, info, storage_ok))

NextIssue ==
    \/ apply_add_new_issue
    \/ apply_issue_title_edit
    \/ apply_issue_status_change
    \/ apply_issue_label_change

SpecIssue == InitIssue /\ [][NextIssue]_vars

\* the stored Issue the record of the last operation refers to
TheIssue == CHOOSE i \in IssuesNumbered(ret.before, ret.input.issue_id) : TRUE

\* the store before the last operation with that Issue replaced
WithIssue(issue) ==
    [ret.before EXCEPT !.issue = (@ \ {TheIssue}) \cup {issue}]

\* the lookup of the last operation found nothing
LookupYieldsNull ==
    \/ /\ Applied("add_new_issue")
       /\ ret.input.milestone # NoText
       /\ MilestonesTitled(ret.before, ret.input.milestone) = {}
    \/ /\ \/ Applied("issue_title_edit")
          \/ Applied("issue_status_change")
          \/ Applied("issue_label_change")
       /\ IssuesNumbered(ret.before, ret.input.issue_id) = {}
    \/ /\ Applied("issue_label_change")
       /\ LabelsNamed(ret.before, ret.input.details.some.value) = {}

\* C22: when the lookup inside a Reconciler operation yields null (unknown
\* milestone title, issue id or label name), the operation skips its
\* mutation, writes nothing to the store and returns without raising.
C22_NullLookupSkipsMutation ==
    LookupYieldsNull
        => /\ ret.exc = "none"
           /\ ret.calls = <<>>
           /\ db = ret.before

C25_StatusChangeFrame ==
    (/\ Applied("issue_status_change")
     /\ Cardinality(IssuesNumbered(ret.before, ret.input.issue_id)) = 1
     /\ ret.ok)
        => /\ ret.exc = "none"
           /\ ret.calls = <<OkCall(UPDATE, "issue")>>
           /\ db = WithIssue([TheIssue EXCEPT
                                 !.is_open = (ret.input.action = "reopened")])

C25_Witness ==
    /\ Applied("issue_status_change")
    /\ ret.input.action = "reopened"
    /\ ret.input.issue_id = 2
    /\ ret.before = StockedStore
    /\ ret.calls = <<OkCall(UPDATE, "issue")>>
    /\ \E i \in IssuesNumbered(db, 2) : i.is_open /\ i.labels = {1, 2}

C23_EveryActionRouted ==
    (/\ Applied("update_db")
     /\ Cardinality(IssuesNumbered(ret.before, ret.input.issue_id)) = 1
     /\ ret.ok)
        => \A i \in IssuesNumbered(db, ret.input.issue_id) :
              /\ ret.input.action = "reopened" => i.is_open
              /\ ret.input.action = "closed" => ~i.is_open
              /\ ret.input.action = "unmilestoned" => i.milestone_id = NoId
              /\ ret.input.action = "unlabeled"
                    => \A l \in LabelsNamed(ret.before,
                                            ret.input.details.some.value) :
                          l.id \notin i.labels

\* C27: a label event edited whose change-set has no name entry, and a
\* milestone event edited whose change-set has no title entry, cause no
\* call to the persistence step and leave the rows unchanged.
C27_OtherEditsIgnored ==
    (\/ /\ Applied("process_label_event_info")
        /\ ret.input.action = "edited"
        /\ ~HasKey(ret.input.changes, "name")
     \/ /\ Applied("process_milestone_event_info")
        /\ ret.input.action = "edited"
        /\ ~HasKey(ret.input.changes, "title"))
        => /\ ret.calls = <<>>
           /\ ret.exc = "none"
           /\ db = ret.before

C27_Witness ==
    /\ Applied("process_milestone_event_info")
    /\ ret.input.action = "edited"
    /\ HasKey(ret.input.changes, "due_on")
    /\ MilestonesTitled(ret.before, ret.input.milestone.some.title) # {}
    /\ ret.calls = <<>>
    /\ db = ret.before

\* C29: no two stored Milestone rows have the same title; a create or a
\* rename that would produce a duplicate title fails at commit, is rolled
\* back and leaves the previously stored rows unchanged.
C29_MilestoneTitlesUnique ==
    /\ \A m1, m2 \in db.milestone : m1.title = m2.title => m1 = m2
    /\ (/\ Applied("process_milestone_event_info")
        /\ ret.input.action \in {"created", "edited"}
        /\ ret.input.action = "edited" => HasKey(ret.input.changes, "title")
        /\ MilestonesTitled(ret.before,
                            ret.input.milestone.some.title) # {})
           => /\ db = ret.before
              /\ ret.exc = "none"
              /\ Len(ret.calls) = 1
              /\ ~ret.calls[1].ok

\* C30: every stored Issue's milestone_id is null or the id of a stored
\* Milestone row, also after a milestone deleted event for a Milestone that
\* stored Issues refer to.
C30_IssueMilestoneExists ==
    \A i \in db.issue :
        i.milestone_id = NoId \/ \E m \in db.milestone : m.id = i.milestone_id

C30_Witness ==
    /\ Applied("process_milestone_event_info")
    /\ ret.input.action = "deleted"
    /\ ret.ok
    /\ \E m \in MilestonesTitled(ret.before,
                                  ret.input.milestone.some.title) :
           /\ \E i \in ret.before.issue : i.milestone_id = m.id
           /\ m \in db.milestone
           /\ \E i \in db.issue : i.milestone_id = m.id

(***************************************************************************)
(* Two deliveries for stored Issues processed at the same time             *)
(* (specification SpecRace).  Each runs issue_title_edit or                *)
(* issue_status_change as its own unit of work on the shared store: the    *)
(* query of get_issue_by_id, then the commit of make_change_to_database;   *)
(* nothing is locked between the two.  arg[w] is the unit of work of       *)
(* delivery w, ret.order the order of the commits.                         *)
(***************************************************************************)
RaceInfos ==
    LET infos == IssueOpInfos({1, 2}, {NoText},
                              {"closed", "reopened", "edited"}, {None})
    IN  infos \cup {[i EXCEPT !.title = "t4"] : i \in infos}

InitRace ==
    /\ HOOK_SECRET_KEY = "s3cret"
    /\ db \in {SeededStore, StockedStore}
    /\ delivery = None
    /\ response = None
    /\ dbcalls = <<>>
    /\ pc = "idle"
    /\ delivered = 0
    /\ arg \in [{1, 2} -> {[info |-> i, at |-> "start", bug |-> None,
                            exc |-> "none", ok |-> FALSE] : i \in RaceInfos}]
    /\ ret = [before |-> db, order |-> <<>>]

\* the UPDATE that the flush of db.session.commit() emits: the columns of
\* the loaded row that the unit of work gave another value, written to the
\* stored row of that id
Flushed(d, loaded, mutated) ==
    LET stored == CHOOSE r \in d.issue : r.id = loaded.id
    IN  [f \in DOMAIN stored |->
            IF mutated[f] # loaded[f] THEN mutated[f] ELSE stored[f]]

\* bug = get_issue_by_id(info['issue_id'])
load_issue(w) ==
    /\ arg[w].at = "start"
    /\ LET got == get_issue_by_id(db, arg[w].info.issue_id)
       IN  arg' = [arg EXCEPT ![w] =
                      IF Raised(got)
                      THEN [@ EXCEPT !.at = "done", !.exc = got.exc]
                      ELSE [@ EXCEPT !.at = "loaded", !.bug = got.val]]
    /\ UNCHANGED <<ret, appvars, HOOK_SECRET_KEY>>

\* bug.title = info['title'] or bug.is_open = status[action], then
\* make_change_to_database(UPDATE, bug)
commit_issue(w) ==
    /\ arg[w].at = "loaded"
    /\ \E storage_ok \in BOOLEAN :
          LET info == arg[w].info
              loaded == arg[w].bug.some
              mutated ==
                  IF info.action = "edited"
                  THEN loaded     \* `title` is no column of Issue
                  ELSE [loaded EXCEPT !.is_open = (info.action = "reopened")]
              step == make_change_to_database(
                          db, UPDATE, Flushed(db, loaded, mutated), storage_ok)
          IN  /\ db' = step.db
              /\ arg' = [arg EXCEPT ![w] =
                            [@ EXCEPT !.at = "done", !.exc = step.exc,
                                      !.ok = step.calls[1].ok]]
              /\ ret' = [ret EXCEPT !.order = Append(@, w)]
    /\ UNCHANGED <<HOOK_SECRET_KEY, delivery, response, dbcalls, pc,
                   delivered>>

NextRace ==
    \E w \in {1, 2} : load_issue(w) \/ commit_issue(w)

SpecRace == InitRace /\ [][NextRace]_vars

\* C28: when two deliveries that set the same field of the same stored
\* Issue are processed concurrently and both commit, the field ends with the
\* value of the delivery whose commit happened last, and no other field of
\* that Issue and no other Issue, Label or Milestone row is altered.
C28_LastWriterWins ==
    (/\ \A w \in {1, 2} :
            arg[w].at = "done" /\ arg[w].exc = "none" /\ arg[w].ok
     /\ arg[1].info.issue_id = arg[2].info.issue_id
     /\ (arg[1].info.action = "edited") <=> (arg[2].info.action = "edited"))
        => LET last == arg[ret.order[2]].info
               now == TheOnly(IssuesNumbered(db, last.issue_id)).some
               was == TheOnly(IssuesNumbered(ret.before,
                                            last.issue_id)).some
           IN  /\ IF last.action = "edited"
                  THEN now.header = last.title
                  ELSE now.is_open = (last.action = "reopened")
               /\ [now EXCEPT !.header = was.header, !.is_open = was.is_open]
                      = was
               /\ last.action = "edited" => now.is_open = was.is_open
               /\ last.action # "edited" => now.header = was.header
               /\ db.issue \ {now} = ret.before.issue \ {was}
               /\ db.label = ret.before.label
               /\ db.milestone = ret.before.milestone

====
